---- MODULE Spec2Model ----
(***************************************************************************)
(* Model of the chunk-loading subsystem of Blok (src/Blok/Server.hh):      *)
(* Server::getChunk, called by any number of client threads, and the       *)
(* background thread LocalServer::T_chunkLoad_run, which share the mutex   *)
(* L_chunks and the collections chunkRequests, chunkRequestsInProgress and *)
(* loadedChunks.  Every statement of the two functions that takes or       *)
(* releases the mutex, or that reads or writes a shared collection, is one *)
(* step of the thread that executes it.                                    *)
(***************************************************************************)
EXTENDS Integers, FiniteSets, Sequences, TLC

\* number of client threads calling Server::getChunk
NumClients == 2
\* number of distinct ChunkID values the clients ask for
NumChunkIDs == 2

Clients == 1..NumClients
ChunkIDs == 1..NumChunkIDs

\* identity of the T_chunkLoad thread, and the owner of an unlocked mutex
Worker == 0
NoThread == -1

\* the null Chunk*
NULL == 0

\* the value of a ChunkID variable that is not in scope
NoChunk == 0

\* no more Chunk objects are ever allocated than this
MaxAlloc == NumChunkIDs + 2

VARIABLES
    L_chunks,                 \* std::mutex L_chunks: the thread that holds it
    chunkRequests,            \* Set<ChunkID> chunkRequests
    chunkRequestsInProgress,  \* Set<ChunkID> chunkRequestsInProgress
    loadedChunks,             \* Map<ChunkID, Chunk*> loadedChunks
    heap,                     \* the Chunk objects allocated so far, by address
    cpc,                      \* per client: position inside getChunk
    cid,                      \* per client: argument id of getChunk
    creq,                     \* per client: argument request of getChunk
    cret,                     \* per client: local ret, the pointer getChunk returns
    wpc,                      \* position of T_chunkLoad_run
    res,                      \* T_chunkLoad_run's local Map<ChunkID, Chunk*> res
    iter,                     \* elements the worker's current range-for has visited
    cur,                      \* the ChunkID the generator is being invoked for
    dpc,                      \* position of ~LocalServer (the server is alive before)
    freed,                    \* how often each Chunk address has been deleted
    dvisited,                 \* keys the destructor's range-for has visited
    dmust,                    \* keys that range-for cannot miss: there when it began
    world,                    \* the solid voxels of the world the generator builds
    ray                       \* the raycastBlock call under way, and its result

shared == <<chunkRequests, chunkRequestsInProgress, loadedChunks>>
cvars == <<cpc, cid, creq, cret>>
wvars == <<wpc, res, iter, cur>>
tvars == <<dpc, freed, dvisited, dmust>>
rvars == <<world, ray>>
vars == <<L_chunks, chunkRequests, chunkRequestsInProgress, loadedChunks, heap,
          cpc, cid, creq, cret, wpc, res, iter, cur,
          dpc, freed, dvisited, dmust, world, ray>>

\* the empty Map
EmptyMap == [x \in {} |-> NULL]

\* map[key] = value of a std::map: inserts, or overwrites an existing entry
MapStore(map, key, value) ==
    [x \in (DOMAIN map) \cup {key} |-> IF x = key THEN value ELSE map[x]]

\* the Chunk that the world generator builds for a ChunkID
Generate(id) == [id |-> id]

\* number of generator invocations made for id so far (each one allocates)
GenCount(id) == Cardinality({p \in DOMAIN heap : heap[p] = Generate(id)})

\* the address operator new gives the next Chunk generated for id: one that
\* no live Chunk has (Chunks are never freed while the server lives)
NewChunk(id) == GenCount(id) * NumChunkIDs + id

\* no raycastBlock call is under way
NoRay == [pc |-> "idle"]

\* the state of a server just constructed, before any ray is cast
InitServer ==
    /\ L_chunks = NoThread
    /\ chunkRequests = {}
    /\ chunkRequestsInProgress = {}
    /\ loadedChunks = EmptyMap
    /\ heap = EmptyMap
    /\ cpc = [c \in Clients |-> "idle"]
    /\ cid = [c \in Clients |-> NoChunk]
    /\ creq = [c \in Clients |-> FALSE]
    /\ cret = [c \in Clients |-> NULL]
    /\ wpc = "wait"
    /\ res = EmptyMap
    /\ iter = {}
    /\ cur = NoChunk
    /\ dpc = "alive"
    /\ freed = EmptyMap
    /\ dvisited = {}
    /\ dmust = {}
    /\ ray = NoRay

\* a server just constructed, in a world without a solid voxel
Init ==
    /\ InitServer
    /\ world = {}

(***************************************************************************)
(* Server::getChunk(id, request), executed by client thread c              *)
(***************************************************************************)

\* a client thread calls getChunk(id, request)
C_call(c, id, request) ==
    /\ cpc[c] = "idle"
    /\ cpc' = [cpc EXCEPT ![c] = "lock"]
    /\ cid' = [cid EXCEPT ![c] = id]
    /\ creq' = [creq EXCEPT ![c] = request]
    /\ UNCHANGED <<tvars, rvars, L_chunks, shared, heap, cret, wvars>>

\* L_chunks.lock()
C_lock(c) ==
    /\ cpc[c] = "lock"
    /\ L_chunks = NoThread
    /\ L_chunks' = c
    /\ cpc' = [cpc EXCEPT ![c] = "body"]
    /\ UNCHANGED <<tvars, rvars, shared, heap, cid, creq, cret, wvars>>

\* the lookup, were it never to find a chunk
Found_Never(id) == FALSE

\* seq != loadedChunks.end(), for seq = loadedChunks.find(id)
Found(id) == id \in DOMAIN loadedChunks

\* the test, were the in-progress set left out of it
NotBeingRequested_PendingOnly(id) ==
    id \notin chunkRequests

\* the test that guards chunkRequests.insert(id), in the not-found branch
NotBeingRequested(id) ==
    id \notin chunkRequests /\ id \notin chunkRequestsInProgress

\* the not-found branch, were the insert made for an id in progress as well
RequestChunk_NoDedup(id, request) ==
    IF request /\ id \notin chunkRequests
    THEN chunkRequests \cup {id}
    ELSE chunkRequests

\* the not-found branch, were the insert never made
RequestChunk_Dropped(id, request) ==
    chunkRequests

\* the not-found branch, were the request flag not looked at
RequestChunk_IgnoresFlag(id, request) ==
    IF id \notin chunkRequests /\ id \notin chunkRequestsInProgress
    THEN chunkRequests \cup {id}
    ELSE chunkRequests

\* the pending set after the not-found branch of getChunk(id, request)
RequestChunk(id, request) ==
    IF request /\ NotBeingRequested(id)
    THEN chunkRequests \cup {id}
    ELSE chunkRequests

\* getChunk, were the request made before the lookup in loadedChunks
C_body_RequestBeforeLookup(c) ==
    /\ cpc[c] = "body"
    /\ chunkRequests' =
          IF creq[c] /\ cid[c] \notin chunkRequests
                     /\ cid[c] \notin chunkRequestsInProgress
          THEN chunkRequests \cup {cid[c]}
          ELSE chunkRequests
    /\ cret' = [cret EXCEPT ![c] =
                   IF cid[c] \in DOMAIN loadedChunks
                   THEN loadedChunks[cid[c]] ELSE NULL]
    /\ cpc' = [cpc EXCEPT ![c] = "unlock"]
    /\ UNCHANGED <<tvars, rvars, L_chunks, chunkRequestsInProgress, loadedChunks, heap,
                   cid, creq, wvars>>

\* auto seq = loadedChunks.find(id); Chunk* ret = NULL;
\* if (seq == end) { if (request) { if (...) chunkRequests.insert(id); } }
\* else { ret = seq->second; }
C_body(c) ==
    /\ cpc[c] = "body"
    /\ IF ~Found(cid[c])
       THEN /\ chunkRequests' = RequestChunk(cid[c], creq[c])
            /\ cret' = [cret EXCEPT ![c] = NULL]
       ELSE /\ cret' = [cret EXCEPT ![c] = loadedChunks[cid[c]]]
            /\ chunkRequests' = chunkRequests
    /\ cpc' = [cpc EXCEPT ![c] = "unlock"]
    /\ UNCHANGED <<tvars, rvars, L_chunks, chunkRequestsInProgress, loadedChunks, heap,
                   cid, creq, wvars>>

\* the return, were the mutex left locked
C_unlock_NoRelease(c) ==
    /\ cpc[c] = "unlock"
    /\ cpc' = [cpc EXCEPT ![c] = "idle"]
    /\ cid' = [cid EXCEPT ![c] = NoChunk]
    /\ creq' = [creq EXCEPT ![c] = FALSE]
    /\ cret' = [cret EXCEPT ![c] = NULL]
    /\ UNCHANGED <<tvars, rvars, L_chunks, shared, heap, wvars>>

\* L_chunks.unlock(); return ret; the frame of the call is gone
C_unlock(c) ==
    /\ cpc[c] = "unlock"
    /\ L_chunks' = NoThread
    /\ cpc' = [cpc EXCEPT ![c] = "idle"]
    /\ cid' = [cid EXCEPT ![c] = NoChunk]
    /\ creq' = [creq EXCEPT ![c] = FALSE]
    /\ cret' = [cret EXCEPT ![c] = NULL]
    /\ UNCHANGED <<tvars, rvars, shared, heap, wvars>>

(***************************************************************************)
(* LocalServer::T_chunkLoad_run, executed by the T_chunkLoad thread        *)
(***************************************************************************)

\* the wait loop, were its test the wrong way round
W_wait_Inverted ==
    /\ wpc = "wait"
    /\ wpc' = IF Cardinality(chunkRequests) # 0 THEN "sleep" ELSE "lock1"
    /\ UNCHANGED <<tvars, rvars, L_chunks, shared, heap, cvars, res, iter, cur>>

\* the wait loop, were the drain started whether or not there is a request
W_wait_NoTest ==
    /\ wpc = "wait"
    /\ wpc' = "lock1"
    /\ UNCHANGED <<tvars, rvars, L_chunks, shared, heap, cvars, res, iter, cur>>

\* while (chunkRequests.size() == 0): the test, made without L_chunks
W_wait ==
    /\ wpc = "wait"
    /\ wpc' = IF Cardinality(chunkRequests) = 0 THEN "sleep" ELSE "lock1"
    /\ UNCHANGED <<tvars, rvars, L_chunks, shared, heap, cvars, res, iter, cur>>

\* nanosleep(&tim, &tim2)
W_sleep ==
    /\ wpc = "sleep"
    /\ wpc' = "wait"
    /\ UNCHANGED <<tvars, rvars, L_chunks, shared, heap, cvars, res, iter, cur>>

\* the start of the drain, were the mutex not taken for it
W_lock1_NoLock ==
    /\ wpc = "lock1"
    /\ wpc' = "copy"
    /\ UNCHANGED <<tvars, rvars, L_chunks, shared, heap, cvars, res, iter, cur>>

\* L_chunks.lock(), before the requests are grabbed
W_lock1 ==
    /\ wpc = "lock1"
    /\ L_chunks = NoThread
    /\ L_chunks' = Worker
    /\ wpc' = "copy"
    /\ UNCHANGED <<tvars, rvars, shared, heap, cvars, res, iter, cur>>

\* chunkRequestsInProgress = chunkRequests
W_copy ==
    /\ wpc = "copy"
    /\ chunkRequestsInProgress' = chunkRequests
    /\ wpc' = "clear"
    /\ UNCHANGED <<tvars, rvars, L_chunks, chunkRequests, loadedChunks, heap, cvars,
                   res, iter, cur>>

\* chunkRequests.clear()
W_clear ==
    /\ wpc = "clear"
    /\ chunkRequests' = {}
    /\ wpc' = "unlock1"
    /\ UNCHANGED <<tvars, rvars, L_chunks, chunkRequestsInProgress, loadedChunks, heap,
                   cvars,
                   res, iter, cur>>

\* the end of the drain, were the mutex kept across the generation
W_unlock1_KeepsLock ==
    /\ wpc = "unlock1"
    /\ wpc' = "gen"
    /\ UNCHANGED <<tvars, rvars, L_chunks, shared, heap, cvars, res, iter, cur>>

\* L_chunks.unlock(); Map<ChunkID, Chunk*> res (empty); the range-for begins
W_unlock1 ==
    /\ wpc = "unlock1"
    /\ L_chunks' = NoThread
    /\ wpc' = "gen"
    /\ UNCHANGED <<tvars, rvars, shared, heap, cvars, res, iter, cur>>

\* for (auto cid : chunkRequestsInProgress): the next element, in any order,
\* and the call worldGen->getChunk(cid) begins
W_genCall ==
    /\ wpc = "gen"
    /\ Cardinality(DOMAIN heap) < MaxAlloc
    /\ \E id \in chunkRequestsInProgress \ iter :
          /\ cur' = id
          /\ iter' = iter \cup {id}
    /\ wpc' = "ingen"
    /\ UNCHANGED <<tvars, rvars, L_chunks, shared, heap, cvars, res>>

\* the generation loop, were res declared inside it (only the last chunk kept)
W_genReturn_ResetsRes ==
    /\ wpc = "ingen"
    /\ heap' = MapStore(heap, NewChunk(cur), Generate(cur))
    /\ res' = MapStore(EmptyMap, cur, NewChunk(cur))
    /\ cur' = NoChunk
    /\ wpc' = "gen"
    /\ UNCHANGED <<tvars, rvars, L_chunks, shared, cvars, iter>>

\* the generation loop, were each chunk stored in loadedChunks as it is made
W_genReturn_StoresDirectly ==
    /\ wpc = "ingen"
    /\ heap' = MapStore(heap, NewChunk(cur), Generate(cur))
    /\ res' = MapStore(res, cur, NewChunk(cur))
    /\ loadedChunks' = MapStore(loadedChunks, cur, NewChunk(cur))
    /\ cur' = NoChunk
    /\ wpc' = "gen"
    /\ UNCHANGED <<tvars, rvars, L_chunks, chunkRequests, chunkRequestsInProgress,
                   cvars, iter>>

\* worldGen->getChunk(cid) returns a new Chunk; res[cid] = it
W_genReturn ==
    /\ wpc = "ingen"
    /\ heap' = MapStore(heap, NewChunk(cur), Generate(cur))
    /\ res' = MapStore(res, cur, NewChunk(cur))
    /\ cur' = NoChunk
    /\ wpc' = "gen"
    /\ UNCHANGED <<tvars, rvars, L_chunks, shared, cvars, iter>>

\* the range-for over chunkRequestsInProgress has no element left
W_genDone ==
    /\ wpc = "gen"
    /\ chunkRequestsInProgress \ iter = {}
    /\ iter' = {}
    /\ wpc' = "lock2"
    /\ UNCHANGED <<tvars, rvars, L_chunks, shared, heap, cvars, res, cur>>

\* L_chunks.lock(), before the results are stored back
W_lock2 ==
    /\ wpc = "lock2"
    /\ L_chunks = NoThread
    /\ L_chunks' = Worker
    /\ wpc' = "merge"
    /\ UNCHANGED <<tvars, rvars, shared, heap, cvars, res, iter, cur>>

\* for (auto elem : res) loadedChunks[elem.first] = elem.second: one element
W_merge ==
    /\ wpc = "merge"
    /\ \E id \in (DOMAIN res) \ iter :
          /\ loadedChunks' = MapStore(loadedChunks, id, res[id])
          /\ iter' = iter \cup {id}
    /\ UNCHANGED <<tvars, rvars, L_chunks, chunkRequests, chunkRequestsInProgress,
                   heap, cvars,
                   wpc, res, cur>>

\* the end of the commit, were chunkRequests cleared along with the batch
W_clear2_ClearsRequests ==
    /\ wpc = "merge"
    /\ (DOMAIN res) \ iter = {}
    /\ chunkRequestsInProgress' = {}
    /\ chunkRequests' = {}
    /\ iter' = {}
    /\ wpc' = "unlock2"
    /\ UNCHANGED <<tvars, rvars, L_chunks, loadedChunks, heap, cvars, res, cur>>

\* the end of the commit, were chunkRequestsInProgress left as it is
W_clear2_KeepsInProgress ==
    /\ wpc = "merge"
    /\ (DOMAIN res) \ iter = {}
    /\ iter' = {}
    /\ wpc' = "unlock2"
    /\ UNCHANGED <<tvars, rvars, L_chunks, shared, heap, cvars, res, cur>>

\* the range-for over res is over; chunkRequestsInProgress.clear()
W_clear2 ==
    /\ wpc = "merge"
    /\ (DOMAIN res) \ iter = {}
    /\ chunkRequestsInProgress' = {}
    /\ iter' = {}
    /\ wpc' = "unlock2"
    /\ UNCHANGED <<tvars, rvars, L_chunks, chunkRequests, loadedChunks, heap, cvars,
                   res, cur>>

\* L_chunks.unlock(); res goes out of scope and the while (true) loop starts over
W_unlock2 ==
    /\ wpc = "unlock2"
    /\ L_chunks' = NoThread
    /\ res' = EmptyMap
    /\ wpc' = "wait"
    /\ UNCHANGED <<tvars, rvars, shared, heap, cvars, iter, cur>>

ClientStep(c) ==
    \/ \E id \in ChunkIDs, request \in BOOLEAN : C_call(c, id, request)
    \/ C_lock(c)
    \/ C_body(c)
    \/ C_unlock(c)

\* the steps of a call that is under way (everything but the decision to call)
ClientRun(c) ==
    C_lock(c) \/ C_body(c) \/ C_unlock(c)

WorkerStep ==
    \/ W_wait
    \/ W_sleep
    \/ W_lock1
    \/ W_copy
    \/ W_clear
    \/ W_unlock1
    \/ W_genCall
    \/ W_genReturn
    \/ W_genDone
    \/ W_lock2
    \/ W_merge
    \/ W_clear2
    \/ W_unlock2

Next == (\E c \in Clients : ClientStep(c)) \/ WorkerStep

Spec == Init /\ [][Next]_vars

(***************************************************************************)
(* ~LocalServer.  The destructor runs on the thread that owns the server,  *)
(* with no getChunk call in flight; it takes no mutex and the worker       *)
(* thread is neither stopped nor joined, so the worker keeps stepping.     *)
(***************************************************************************)
FreeCount(p) == IF p \in DOMAIN freed THEN freed[p] ELSE 0

\* the generator object has been deleted
WorldGenDeleted == dpc \in {"loop", "thread", "terminated"}

\* the owner begins to destroy the server
D_begin ==
    /\ dpc = "alive"
    /\ \A c \in Clients : cpc[c] = "idle"
    /\ ray = NoRay
    /\ dpc' = "delete_wg"
    /\ UNCHANGED <<L_chunks, shared, heap, cvars, wvars, freed, dvisited, dmust, rvars>>

\* delete worldGen; then the range-for over loadedChunks begins
D_deleteWG ==
    /\ dpc = "delete_wg"
    /\ dpc' = "loop"
    /\ dvisited' = {}
    /\ dmust' = DOMAIN loadedChunks
    /\ UNCHANGED <<L_chunks, shared, heap, cvars, wvars, freed, rvars>>

\* delete entry.second, for an entry not visited yet: the worker may insert
\* while the loop runs, and such an entry may be visited or missed
D_delete ==
    /\ dpc = "loop"
    /\ \E id \in DOMAIN loadedChunks \ dvisited :
         /\ freed' = MapStore(freed, loadedChunks[id], FreeCount(loadedChunks[id]) + 1)
         /\ dvisited' = dvisited \cup {id}
         /\ dmust' = dmust \ {id}
    /\ UNCHANGED <<L_chunks, shared, heap, cvars, wvars, dpc, rvars>>

\* the range-for ends: every entry that was there when it began is deleted
D_loopEnd ==
    /\ dpc = "loop"
    /\ dmust = {}
    /\ dpc' = "thread"
    /\ UNCHANGED <<L_chunks, shared, heap, cvars, wvars, freed, dvisited, dmust, rvars>>

\* the member T_chunkLoad is destroyed while joinable: std::terminate
D_thread ==
    /\ dpc = "thread"
    /\ dpc' = "terminated"
    /\ UNCHANGED <<L_chunks, shared, heap, cvars, wvars, freed, dvisited, dmust, rvars>>

\* the worker is inside a call on the deleted generator: the call may go on
\* as if nothing happened (W_genReturn) or bring the process down
D_crash ==
    /\ WorldGenDeleted
    /\ dpc # "terminated"
    /\ wpc = "ingen"
    /\ dpc' = "terminated"
    /\ UNCHANGED <<L_chunks, shared, heap, cvars, wvars, freed, dvisited, dmust, rvars>>

\* consumers call only a live server; the worker runs until the process ends
T_client(c) == dpc = "alive" /\ ClientStep(c)
T_worker == dpc # "terminated" /\ WorkerStep

NextTeardown ==
    \/ \E c \in Clients : T_client(c)
    \/ T_worker
    \/ D_begin
    \/ D_deleteWG
    \/ D_delete
    \/ D_loopEnd
    \/ D_thread
    \/ D_crash

SpecTeardown == Init /\ [][NextTeardown]_vars

(***************************************************************************)
(* raycastBlock(ray, dist, hitInfo), after the behaviour the specification *)
(* gives for it: a march along the ray, one voxel per step, that calls     *)
(* getChunk(id, true) at each step.  The world is a line of voxels, cut    *)
(* into chunks of ChunkSize voxels; a ray runs from its origin in the      *)
(* direction of growing coordinates.  A step whose chunk is not loaded     *)
(* counts as a step through air and the march goes on.                     *)
(***************************************************************************)
MaxDist == 10

\* the chunks together cover the longest ray
ChunkSize == MaxDist \div NumChunkIDs

Voxels == 0 .. (NumChunkIDs * ChunkSize - 1)

\* the worlds considered: no solid voxel, or exactly one
Worlds == {{}} \cup {{v} : v \in Voxels}

\* the ChunkID containing a position, and the voxel cell inside that chunk
ChunkOf(p) == (p \div ChunkSize) + 1
LocalCell(p) == p % ChunkSize

\* the voxel at a cell of a chunk is solid
IsSolid(chunk, cell) == ((chunk.id - 1) * ChunkSize + cell) \in world

\* the thread that casts rays
RayClient == CHOOSE c \in Clients : \A d \in Clients : c <= d

\* the position of the march step under way
RayPos == ray.org + ray.k

\* raycastBlock is called: the march begins at the origin
R_begin(o, d) ==
    /\ dpc = "alive"
    /\ ray = NoRay
    /\ cpc[RayClient] = "idle"
    /\ o + d - 1 \in Voxels
    /\ ray' = [pc |-> "march", org |-> o, len |-> d, k |-> 0, hit |-> FALSE,
               pos |-> o, start |-> DOMAIN loadedChunks]
    /\ UNCHANGED <<L_chunks, shared, heap, cvars, wvars, tvars, world>>

\* a march step calls getChunk for the chunk of its position, requesting it
R_call ==
    /\ ray.pc = "march"
    /\ C_call(RayClient, ChunkOf(RayPos), TRUE)

\* the steps of that getChunk call, up to its return
R_lock == ray.pc = "march" /\ C_lock(RayClient)
R_body == ray.pc = "march" /\ C_body(RayClient)

\* getChunk returns: a solid voxel in a chunk returned ends the march as a
\* hit at that voxel; otherwise the march moves on, and ends without a hit
\* once it has covered the distance
R_return ==
    /\ ray.pc = "march"
    /\ cpc[RayClient] = "unlock"
    /\ L_chunks' = NoThread
    /\ cpc' = [cpc EXCEPT ![RayClient] = "idle"]
    /\ cid' = [cid EXCEPT ![RayClient] = NoChunk]
    /\ creq' = [creq EXCEPT ![RayClient] = FALSE]
    /\ cret' = [cret EXCEPT ![RayClient] = NULL]
    /\ ray' = IF /\ cret[RayClient] # NULL
                 /\ IsSolid(heap[cret[RayClient]], LocalCell(RayPos))
              THEN [ray EXCEPT !.pc = "done", !.hit = TRUE, !.pos = RayPos]
              ELSE IF ray.k + 1 = ray.len
                   THEN [ray EXCEPT !.pc = "done"]
                   ELSE [ray EXCEPT !.k = ray.k + 1]
    /\ UNCHANGED <<shared, heap, wvars, tvars, world>>

\* the caller has taken the result
R_end ==
    /\ ray.pc = "done"
    /\ ray' = NoRay
    /\ UNCHANGED <<L_chunks, shared, heap, cvars, wvars, tvars, world>>

InitRay ==
    /\ InitServer
    /\ world \in Worlds

NextRay ==
    \/ \E o \in Voxels, d \in 1 .. MaxDist : R_begin(o, d)
    \/ R_call
    \/ R_lock
    \/ R_body
    \/ R_return
    \/ R_end
    \/ WorkerStep

SpecRay == InitRay /\ [][NextRay]_vars

(***************************************************************************)
(* Fair scheduling: the worker thread keeps running and gets the mutex     *)
(* when it is free again and again; a client that holds the mutex goes on  *)
(* to release it.  Clients are never obliged to call getChunk.             *)
(***************************************************************************)
WorkerRun ==
    \/ W_wait \/ W_sleep \/ W_copy \/ W_clear \/ W_unlock1
    \/ W_genCall \/ W_genReturn \/ W_genDone
    \/ W_merge \/ W_clear2 \/ W_unlock2

Fairness ==
    /\ WF_vars(WorkerRun)
    /\ SF_vars(W_lock1)
    /\ SF_vars(W_lock2)
    /\ \A c \in Clients : WF_vars(C_body(c) \/ C_unlock(c))

FairSpec == Init /\ [][Next]_vars /\ Fairness

(***************************************************************************)
(* Vocabulary of the properties                                            *)
(***************************************************************************)
Pending == chunkRequests
InProgress == chunkRequestsInProgress
Loaded == DOMAIN loadedChunks

\* the step is one of client c / of the worker
ClientStepped(c) == cpc'[c] # cpc[c]
WorkerStepped == wvars' # wvars

\* the worker is between the end of its drain and the start of its commit
Generating == wpc \in {"gen", "ingen", "lock2"}

\* generator invocations begun for id: those that returned, and the one under way
Invocations(id) == GenCount(id) + (IF cur = id THEN 1 ELSE 0)

PairwiseDisjoint ==
    /\ Pending \cap InProgress = {}
    /\ Pending \cap Loaded = {}
    /\ InProgress \cap Loaded = {}

\* C1: whenever the worker is not inside one of its critical sections (so in
\* every state a thread can observe, with or without the mutex), pending,
\* in-progress and the keys of loaded are pairwise disjoint.
C1_StateDisjointness == L_chunks # Worker => PairwiseDisjoint

\* a client and the worker overlap: an id is pending while another is in progress
C1_Witness ==
    /\ L_chunks = NoThread
    /\ Pending # {}
    /\ InProgress # {}
    /\ \E c \in Clients : cpc[c] = "lock"

\* C2: under fair scheduling every pending id becomes in-progress (and leaves
\* pending), every in-progress id becomes loaded with the chunk the generator
\* built for it, and a lookup of a loaded id returns that chunk, not null.
C2_EventualAvailability ==
    /\ \A x \in ChunkIDs :
          (x \in Pending) ~> (x \in InProgress /\ x \notin Pending)
    /\ \A x \in ChunkIDs :
          (x \in InProgress) ~>
              (x \in Loaded /\ x \notin InProgress
                 /\ heap[loadedChunks[x]] = Generate(x))
    /\ [](\A c \in Clients :
            (cpc[c] = "unlock" /\ cid[c] \in Loaded) =>
                /\ cret[c] # NULL
                /\ cret[c] = loadedChunks[cid[c]]
                /\ heap[cret[c]] = Generate(cid[c]))

\* getChunk(x, false) is about to return the generated chunk of x
C2_Witness ==
    \E c \in Clients :
        /\ cpc[c] = "unlock"
        /\ ~creq[c]
        /\ cret[c] # NULL
        /\ heap[cret[c]] = Generate(cid[c])

\* C3: outside the worker's critical sections no id is both pending and in
\* progress; the generator is invoked at most once for an id, never for an id
\* that is still only pending, and exactly once for an id that is loaded.
C3_GenerateOnce ==
    \A x \in ChunkIDs :
        /\ L_chunks # Worker => ~(x \in Pending /\ x \in InProgress)
        /\ Invocations(x) <= 1
        /\ (x \in Pending /\ L_chunks # Worker) => Invocations(x) = 0
        /\ x \in Loaded => Invocations(x) = 1

\* every client is inside getChunk(x, true) for the same x, which is loaded
C3_Witness ==
    \E x \in ChunkIDs :
        /\ x \in Loaded
        /\ GenCount(x) = 1
        /\ \A c \in Clients : cpc[c] # "idle" /\ cid[c] = x /\ creq[c]

\* C4: a request for B made while the worker generates a batch without B puts
\* B in pending; B stays pending through the commit of that batch; and under
\* fair scheduling B is in a later batch and ends up generated and loaded.
C4_NoLostRequests ==
    /\ [][\A c \in Clients :
            (/\ cpc[c] = "body" /\ cpc'[c] = "unlock"
             /\ Generating /\ InProgress # {}
             /\ creq[c] /\ cid[c] \notin InProgress /\ cid[c] \notin Loaded)
            => cid[c] \in chunkRequests']_vars
    /\ [][\A b \in ChunkIDs :
            (b \in Pending /\ wpc \in {"gen", "ingen", "lock2", "merge", "unlock2"})
            => b \in chunkRequests']_vars
    /\ \A b \in ChunkIDs :
          (Generating /\ InProgress # {} /\ b \in Pending) ~>
              (wpc = "gen" /\ b \in InProgress /\ b \notin Loaded)
    /\ \A b \in ChunkIDs :
          (Generating /\ InProgress # {} /\ b \in Pending) ~>
              (b \in Loaded /\ GenCount(b) = 1)

\* the batch of A is committed and B, requested meanwhile, is still pending
C4_Witness ==
    \E a, b \in ChunkIDs :
        /\ wpc = "unlock2"
        /\ a \in DOMAIN res
        /\ a \in Loaded
        /\ b \notin DOMAIN res
        /\ b \in Pending

\* C5: the critical section of getChunk(id, request) yields the stored chunk
\* and changes no collection when id is loaded; otherwise it yields null and,
\* when request is set, leaves id pending or in progress, which still holds as
\* the call returns.  A non-null result is always the loaded chunk of id.
C5_GetChunkResult ==
    /\ [][\A c \in Clients :
            (cpc[c] = "body" /\ cpc'[c] = "unlock") =>
                IF cid[c] \in Loaded
                THEN /\ cret'[c] = loadedChunks[cid[c]]
                     /\ cret'[c] # NULL
                     /\ UNCHANGED shared
                ELSE /\ cret'[c] = NULL
                     /\ creq[c] => cid[c] \in chunkRequests' \cup chunkRequestsInProgress'
                     /\ UNCHANGED <<chunkRequestsInProgress, loadedChunks>>]_vars
    /\ [](\A c \in Clients :
            cpc[c] = "unlock" =>
                /\ cret[c] # NULL =>
                      (cid[c] \in Loaded /\ cret[c] = loadedChunks[cid[c]])
                /\ (cret[c] = NULL /\ creq[c]) =>
                      cid[c] \in Pending \cup InProgress)

\* getChunk(id, true) is about to return null for an id that is in progress
C5_Witness ==
    \E c \in Clients :
        /\ cpc[c] = "unlock"
        /\ creq[c]
        /\ cret[c] = NULL
        /\ cid[c] \in InProgress

\* C6: no step of a call getChunk(x, false) changes pending, in-progress or
\* loaded.
C6_LookupDoesNotMutate ==
    [][\A c \in Clients :
         (ClientStepped(c) /\ (IF cpc[c] = "idle" THEN ~creq'[c] ELSE ~creq[c]))
         => UNCHANGED shared]_vars

\* getChunk(x, false) went through its critical section while x is in progress
C6_Witness ==
    \E c \in Clients :
        /\ cpc[c] = "unlock"
        /\ ~creq[c]
        /\ cret[c] = NULL
        /\ cid[c] \in InProgress
        /\ cid[c] \notin Pending

\* C7: an entry of loadedChunks keeps its Chunk pointer in every step, and a
\* non-null result of getChunk(x, ...) is that pointer.
C7_IdentityStability ==
    /\ [][\A x \in Loaded :
            x \in DOMAIN loadedChunks' /\ loadedChunks'[x] = loadedChunks[x]]_vars
    /\ [](\A c \in Clients :
            (cpc[c] = "unlock" /\ cret[c] # NULL) =>
                (cid[c] \in Loaded /\ cret[c] = loadedChunks[cid[c]]))

\* a later batch has been merged into a loadedChunks that already had an entry
C7_Witness ==
    /\ wpc = "unlock2"
    /\ DOMAIN res # {}
    /\ \E x \in Loaded : x \notin DOMAIN res

\* C8: a key of loadedChunks stays a key in every step, and is neither pending
\* nor in progress, except inside the very commit that is storing it.
C8_LoadedIsPermanent ==
    /\ [][\A x \in Loaded : x \in DOMAIN loadedChunks']_vars
    /\ [](\A x \in Loaded :
            \/ wpc = "merge" /\ x \in DOMAIN res
            \/ x \notin Pending /\ x \notin InProgress)

\* a loaded id is asked for again with request set, during a later worker cycle
C8_Witness ==
    \E c \in Clients :
        /\ cpc[c] = "unlock"
        /\ creq[c]
        /\ cid[c] \in Loaded
        /\ wpc = "ingen"

\* the next step of the worker reads or writes one of the three collections
WorkerAccesses == wpc \in {"wait", "copy", "clear", "gen", "merge"}

\* the next step of client c reads or writes one of the three collections
ClientAccesses(c) == cpc[c] = "body"

\* the next step of client c inserts into chunkRequests
ClientWritesRequests(c) ==
    /\ cpc[c] = "body"
    /\ cid[c] \notin Loaded
    /\ creq[c]
    /\ cid[c] \notin Pending /\ cid[c] \notin InProgress

\* C9: a thread that is about to read or write chunkRequests,
\* chunkRequestsInProgress or loadedChunks holds L_chunks, and so the worker
\* never reads chunkRequests while a client is writing it.
C9_AllAccessUnderLock ==
    /\ WorkerAccesses => L_chunks = Worker
    /\ \A c \in Clients : ClientAccesses(c) => L_chunks = c
    /\ \A c \in Clients : ~(ClientWritesRequests(c) /\ wpc = "wait")

\* C10: the worker does not hold L_chunks while it generates a batch, so a
\* client waiting for the mutex then is held up by another client at most.
C10_GenerationDoesNotStallLookups ==
    wpc \in {"gen", "ingen"} =>
        /\ L_chunks # Worker
        /\ \A c \in Clients :
              (cpc[c] = "lock" /\ L_chunks = NoThread) => ENABLED C_lock(c)

\* while the generator runs, a getChunk call has put a request and returned
C10_Witness ==
    /\ wpc = "ingen"
    /\ L_chunks = NoThread
    /\ Pending # {}
    /\ cur \notin Pending
    /\ \A c \in Clients : cpc[c] = "idle"

\* the worker is inside its drain: between L_chunks.lock() and unlock()
Draining == wpc \in {"copy", "clear", "unlock1"}

\* C11: the drain is one critical section: the copy makes in-progress equal to
\* pending, the clear empties pending and keeps in-progress, loaded is not
\* touched and no client step changes a collection meanwhile; a client inside
\* its own critical section never sees an id both pending and in progress, no
\* step around the drain drops an id from both sets, and a request made by
\* getChunk(id, true) ends in exactly one of the two sets.
C11_AtomicDrain ==
    /\ [](Draining => L_chunks = Worker)
    /\ [](wpc = "unlock1" => Pending = {})
    /\ [][(wpc = "copy" /\ wpc' = "clear") =>
             /\ chunkRequestsInProgress' = chunkRequests
             /\ UNCHANGED <<chunkRequests, loadedChunks>>]_vars
    /\ [][(wpc = "clear" /\ wpc' = "unlock1") =>
             /\ chunkRequestsInProgress = chunkRequests
             /\ chunkRequests' = {}
             /\ UNCHANGED <<chunkRequestsInProgress, loadedChunks>>]_vars
    /\ [][(Draining /\ ~WorkerStepped) => UNCHANGED shared]_vars
    /\ [](\A c \in Clients :
            cpc[c] \in {"body", "unlock"} => Pending \cap InProgress = {})
    /\ [][\A x \in ChunkIDs :
            (wpc \in {"lock1", "copy", "clear", "unlock1"}
               /\ x \in Pending \cup InProgress)
            => x \in chunkRequests' \cup chunkRequestsInProgress']_vars
    /\ [][\A c \in Clients :
            (cpc[c] = "body" /\ cpc'[c] = "unlock" /\ creq[c]
               /\ cid[c] \notin Loaded)
            => (cid[c] \in chunkRequests') # (cid[c] \in chunkRequestsInProgress')]_vars

\* the drain has taken a batch while a client with a request waits for the mutex
C11_Witness ==
    /\ wpc = "unlock1"
    /\ InProgress # {}
    /\ \E c \in Clients :
          cpc[c] = "lock" /\ creq[c] /\ cid[c] \notin InProgress

\* C12: when the commit starts, res holds the generated chunk of every id of
\* the batch and of no other id; every store of the commit adds one new entry
\* and leaves pending and the older entries alone; when the commit is over
\* every id of the batch is loaded with its generated chunk and in-progress is
\* empty.
C12_Commit ==
    /\ [](wpc \in {"lock2", "merge"} => DOMAIN res = InProgress)
    /\ [](wpc = "unlock2" =>
            /\ InProgress = {}
            /\ \A id \in DOMAIN res :
                  /\ id \in Loaded
                  /\ loadedChunks[id] = res[id]
                  /\ heap[loadedChunks[id]] = Generate(id))
    /\ [][(wpc \in {"merge", "unlock2"}) =>
             /\ chunkRequests' = chunkRequests
             /\ \A x \in Loaded :
                   x \in DOMAIN loadedChunks' /\ loadedChunks'[x] = loadedChunks[x]
             /\ (loadedChunks' # loadedChunks =>
                   Cardinality(DOMAIN loadedChunks') = 1 + Cardinality(Loaded))]_vars

\* a batch of two chunks has been committed
C12_Witness ==
    /\ wpc = "unlock2"
    /\ Cardinality(DOMAIN res) >= 2
    /\ DOMAIN res \subseteq Loaded

\* C13: the critical section of getChunk(id, true) inserts id into pending if
\* and only if id is in none of the three collections, changes nothing else,
\* and leaves a state in which a second request for id would change nothing.
C13_RequestIdempotence ==
    [][\A c \in Clients :
         (cpc[c] = "body" /\ cpc'[c] = "unlock" /\ creq[c]) =>
            /\ chunkRequests' =
                  IF cid[c] \notin Pending \cup InProgress \cup Loaded
                  THEN Pending \cup {cid[c]}
                  ELSE Pending
            /\ UNCHANGED <<chunkRequestsInProgress, loadedChunks>>
            /\ (cid[c] \in Pending \cup InProgress \cup Loaded) => UNCHANGED shared
            /\ (cid[c] \notin DOMAIN loadedChunks') =>
                  (RequestChunk(cid[c], TRUE))' = chunkRequests']_vars

\* two calls getChunk(x, true) in a row: one is through, the next is waiting
C13_Witness ==
    \E c, d \in Clients :
        /\ c # d
        /\ cpc[c] = "unlock" /\ creq[c] /\ cid[c] \in Pending
        /\ cpc[d] = "lock" /\ creq[d] /\ cid[d] = cid[c]

\* C14: the worker goes for the mutex and drains only with pending non-empty,
\* so every batch has an element; with pending empty a step of the waiting
\* worker keeps it waiting and changes no collection.
C14_WaitsForRequests ==
    /\ [](wpc \in {"lock1", "copy"} => Pending # {})
    /\ [](wpc \in {"clear", "unlock1", "gen", "ingen", "lock2", "merge"}
            => InProgress # {})
    /\ [][(wpc \in {"wait", "sleep"} /\ Pending = {} /\ WorkerStepped) =>
             /\ wpc' \in {"wait", "sleep"}
             /\ UNCHANGED shared
             /\ UNCHANGED L_chunks]_vars

\* after a cycle the worker is back in its wait loop with nothing to do
C14_Witness ==
    /\ wpc = "sleep"
    /\ Pending = {}
    /\ Loaded # {}

\* how far an id has got: 0 absent, 1 pending, 2 in progress, 3 loaded
Stage(x) ==
    IF x \in DOMAIN loadedChunks THEN 3
    ELSE IF x \in chunkRequestsInProgress THEN 2
    ELSE IF x \in chunkRequests THEN 1
    ELSE 0

\* C15: in every step an id keeps its stage or moves to the next one (absent,
\* pending, in progress, loaded), and only into loaded with a chunk generated
\* for it; under fair scheduling a pending id gets generated.
C15_NoCancellation ==
    /\ [][\A x \in ChunkIDs :
            /\ Stage(x)' \in {Stage(x), Stage(x) + 1}
            /\ (Stage(x) = 0 /\ Stage(x)' = 1) => ~WorkerStepped
            /\ (Stage(x) = 1 /\ Stage(x)' = 2) => wpc = "copy"
            /\ (Stage(x) = 2 /\ Stage(x)' = 3) =>
                  (wpc = "merge" /\ x \in DOMAIN res /\ GenCount(x) = 1)]_vars
    /\ \A x \in ChunkIDs : (x \in Pending) ~> (GenCount(x) = 1)

\* one id has gone all the way while another is still pending
C15_Witness ==
    /\ wpc = "wait"
    /\ L_chunks = NoThread
    /\ Loaded # {}
    /\ Pending # {}

\* the Chunk pointers the worker holds in res
ResChunks == {res[x] : x \in DOMAIN res}

\* C19: outside the worker's critical sections nothing of res is in
\* loadedChunks and no id is both in progress and loaded, so a client inside
\* getChunk sees the current batch either wholly in progress or wholly loaded,
\* and getChunk never returns a chunk that is still held in res.
C19_BatchVisibility ==
    /\ L_chunks # Worker =>
          /\ \A x \in DOMAIN res : x \notin Loaded
          /\ InProgress \cap Loaded = {}
    /\ \A c \in Clients :
          cpc[c] \in {"body", "unlock"} =>
              /\ InProgress \subseteq Loaded \/ InProgress \cap Loaded = {}
              /\ cret[c] # NULL => cret[c] \notin ResChunks

\* a lookup of the first chunk of a batch of two waits while the batch is half
\* stored
C19_Witness ==
    /\ wpc = "merge"
    /\ iter # {}
    /\ iter # DOMAIN res
    /\ \E c \in Clients : cpc[c] = "lock" /\ cid[c] \in iter

\* C20: from the end of the drain to the start of the commit no step changes
\* chunkRequestsInProgress and the generation loop visits only its elements,
\* so res ends up with exactly the drained ids; while the worker waits for
\* work chunkRequestsInProgress is empty.
C20_InProgressStable ==
    /\ [][Generating => chunkRequestsInProgress' = chunkRequestsInProgress]_vars
    /\ [](wpc \in {"gen", "ingen"} =>
            /\ iter \subseteq InProgress
            /\ DOMAIN res \subseteq iter
            /\ wpc = "ingen" => cur \in InProgress)
    /\ [](wpc = "lock2" => DOMAIN res = InProgress)
    /\ [](wpc \in {"wait", "sleep", "lock1"} => InProgress = {})

\* a client reads an id of the batch under the mutex while the worker has
\* generated all of it
C20_Witness ==
    /\ wpc = "lock2"
    /\ Cardinality(InProgress) >= 2
    /\ \E c \in Clients : cpc[c] = "unlock" /\ creq[c] /\ cid[c] \in InProgress

(***************************************************************************)
(* C16: once the release loop of ~LocalServer has run, every chunk the     *)
(* server ever allocated has been released exactly once: none is left      *)
(* unreleased, none is released twice, and loadedChunks holds no chunk     *)
(* put there after the loop; before teardown nothing is released.          *)
(***************************************************************************)
C16_TeardownReleasesAll ==
    /\ dpc \in {"alive", "delete_wg"} => freed = EmptyMap
    /\ \A p \in DOMAIN heap : FreeCount(p) <= 1
    /\ dpc \in {"thread", "terminated"} =>
         /\ \A p \in DOMAIN heap : FreeCount(p) = 1
         /\ \A id \in Loaded : FreeCount(loadedChunks[id]) = 1

\* the positions a raycastBlock call covers within its distance
OnRay == {ray.org + j : j \in 0 .. (ray.len - 1)}

\* the positions whose march step is over
Marched ==
    IF ray.pc = "march" THEN {ray.org + j : j \in 0 .. (ray.k - 1)}
    ELSE IF ray.hit THEN {p \in OnRay : p <= ray.pos}
    ELSE OnRay

WorkerInCriticalSection == wpc \in {"copy", "clear", "unlock1", "merge", "unlock2"}

\* thread c is inside getChunk, between L_chunks.lock() and L_chunks.unlock()
ClientInCriticalSection(c) == cpc[c] \in {"body", "unlock"}

(***************************************************************************)
(* C21: a thread holds L_chunks exactly while it is in a critical section: *)
(* a getChunk call holds it from its lock to its return on each of its     *)
(* paths and not after, the worker holds it in its drain and in its commit *)
(* and not while it waits or generates; the mutex is only ever taken when  *)
(* it is free, by a thread at its lock statement, and a thread at its lock *)
(* statement can take a free mutex.  Hence a mutex that is held gets       *)
(* released, and the worker at a lock statement gets the mutex.            *)
(***************************************************************************)
C21_LockDiscipline ==
    /\ [](\A c \in Clients : (L_chunks = c) <=> ClientInCriticalSection(c))
    /\ []((L_chunks = Worker) <=> WorkerInCriticalSection)
    /\ [][\A c \in Clients :
            /\ (cpc[c] = "body" /\ ClientStepped(c)) =>
                  /\ cpc'[c] = "unlock"
                  /\ L_chunks' = c
                  /\ (cret'[c] # NULL) <=> (cid[c] \in Loaded)
            /\ (cpc[c] = "unlock" /\ ClientStepped(c)) =>
                  /\ cpc'[c] = "idle"
                  /\ L_chunks' = NoThread]_vars
    /\ [][(L_chunks' # L_chunks) =>
            \/ /\ L_chunks = NoThread
               /\ \/ L_chunks' = Worker /\ wpc \in {"lock1", "lock2"}
                  \/ \E c \in Clients : L_chunks' = c /\ cpc[c] = "lock"
            \/ L_chunks' = NoThread]_vars
    /\ [](L_chunks = NoThread =>
            /\ \A c \in Clients : cpc[c] = "lock" => ENABLED C_lock(c)
            /\ wpc = "lock1" => ENABLED W_lock1
            /\ wpc = "lock2" => ENABLED W_lock2)
    /\ (L_chunks # NoThread) ~> (L_chunks = NoThread)
    /\ (wpc \in {"lock1", "lock2"}) ~> (L_chunks = Worker)

\* a getChunk(id, false) call for a chunk not loaded is about to return, with
\* the other client and the worker both waiting for the mutex it holds
C21_Witness ==
    \E c, d \in Clients :
        /\ c # d
        /\ cpc[c] = "unlock" /\ ~creq[c] /\ cret[c] = NULL
        /\ L_chunks = c
        /\ cpc[d] = "lock"
        /\ wpc = "lock2"

====
